---------------------------- MODULE Spec2Model ----------------------------
(***************************************************************************)
(* Model of the datagovmy MCP server: the CallTool handler and its six     *)
(* tools over the static dataset index (src/cli.js) and DataGovMyClient    *)
(* (src/src/client.ts), with the upstream API as the environment.          *)
(*                                                                         *)
(* JavaScript strings that the code lower-cases or searches are sequences  *)
(* of one-character strings; strings that are only compared (source names, *)
(* parameter keys, tool names) are plain strings.  An argument or a record *)
(* field that is absent (undefined) is a field missing from the record.    *)
(***************************************************************************)
EXTENDS Integers, Sequences, FiniteSets, TLC

VARIABLES DATASETS_INDEX, pc, call, scoredDatasets, request, abortController, response,
          controllers, log, reply, promises

\* DATASETS_INDEX   the static index
\* pc, call         the invocation in progress and where it stands
\* scoredDatasets   the ranked list of the last search
\* request          the fetch the invocation awaits (or awaited last)
\* abortController  this.abortController: Null or the controller it refers to
\* controllers      the AbortControllers created so far: their aborted flags
\* log              the fetches issued by the invocation, in order
\* reply            the upstream response received last by the invocation
\* response         what the invocation returned to its caller
\* promises         for queries made side by side on the client: the state of
\*                  each one, pending or settled, by the number of its controller
vars == <<DATASETS_INDEX, pc, call, scoredDatasets, request, abortController, response,
          controllers, log, reply, promises>>

(***************************************************************************)
(* Bounds of the model.                                                    *)
(***************************************************************************)
\* most records in the whole index (both sources together)
MaxRecords == 2
\* largest limit / offset argument tried (the smallest is -1)
MaxNum == 2
\* most AbortControllers (queries) created in one behaviour
MaxControllers == 2

Null == [null |-> TRUE]

(***************************************************************************)
(* Strings.                                                                *)
(***************************************************************************)
Uppers == <<"A","B","C","D","E","F","G","H","I","J","K","L","M",
            "N","O","P","Q","R","S","T","U","V","W","X","Y","Z">>
Lowers == <<"a","b","c","d","e","f","g","h","i","j","k","l","m",
            "n","o","p","q","r","s","t","u","v","w","x","y","z">>

\* String.prototype.toLowerCase, one character
LowerChar(c) ==
    IF \E i \in 1..Len(Uppers) : Uppers[i] = c
    THEN Lowers[CHOOSE i \in 1..Len(Uppers) : Uppers[i] = c]
    ELSE c

\* String.prototype.toLowerCase
toLowerCase(s) == [i \in 1..Len(s) |-> LowerChar(s[i])]

\* String.prototype.includes
includes(s, q) ==
    \E i \in 1..(Len(s) - Len(q) + 1) : SubSeq(s, i, i + Len(q) - 1) = q

\* a JavaScript value used as a condition: "" and undefined are falsy
Has(r, f) == f \in DOMAIN r
TruthySeq(r, f) == Has(r, f) /\ r[f] # <<>>
TruthyStr(r, f) == Has(r, f) /\ r[f] # ""

(***************************************************************************)
(* Array.prototype.slice(start, end) on a sequence (0-based arguments).    *)
(***************************************************************************)
Min(a, b) == IF a < b THEN a ELSE b
Max(a, b) == IF a > b THEN a ELSE b
RelIndex(k, len) == IF k < 0 THEN Max(len + k, 0) ELSE Min(k, len)
slice(arr, start, end) ==
    SubSeq(arr, RelIndex(start, Len(arr)) + 1, RelIndex(end, Len(arr)))

(***************************************************************************)
(* The static index: records of the Dataset interface.                     *)
(***************************************************************************)
S_cpi_core == <<"c","p","i","_","c","o","r","e">>
S_Core_CPI == <<"C","o","r","e"," ","C","P","I">>
S_Prices == <<"P","r","i","c","e","s">>
S_inflation == <<"i","n","f","l","a","t","i","o","n">>
S_Inflation == <<"I","n","f","l","a","t","i","o","n">>
S_gdp == <<"g","d","p">>
S_GDP == <<"G","D","P">>
S_gdp_qtr == <<"g","d","p","_","q","t","r">>
S_GDP_state == <<"G","D","P","_","s","t">>
S_Qtr_GDP == <<"Q","t","r"," ","G","D","P">>
S_real_gdp == <<"r","e","a","l"," ","g","d","p">>
S_Accounts == <<"A","c","c","o","u","n","t","s">>
S_Annual == <<"A","n","n","u","a","l">>
S_Economy == <<"E","c","o","n","o","m","y">>
S_economy == <<"e","c","o","n","o","m","y">>
S_Health == <<"H","e","a","l","t","h">>
S_fuelprice == <<"f","u","e","l","p","r","i","c","e">>
S_date == <<"2","0","2","4","-","0","1","-","0","1">>

\* the record of the end-to-end scenario: it has no description field
R_cpi_core ==
    [id |-> S_cpi_core, name |-> S_Core_CPI, category |-> S_Prices,
     keywords |-> <<S_inflation>>]
R_gdp ==
    [id |-> S_gdp, name |-> S_Accounts, description |-> S_Annual,
     category |-> S_Economy]
R_gdp_qtr ==
    [id |-> S_gdp_qtr, name |-> S_Qtr_GDP, description |-> S_GDP,
     category |-> S_economy, keywords |-> <<S_gdp, S_real_gdp, S_inflation>>]
\* no category, an empty description
R_gdp_state ==
    [id |-> S_GDP_state, name |-> S_Accounts, description |-> <<>>,
     keywords |-> <<S_Inflation>>]

Records == {R_cpi_core, R_gdp, R_gdp_qtr, R_gdp_state}

\* ordered sequences of records with ids unique within the source
RecordSeqs(n) ==
    UNION {{s \in [1..k -> Records] :
              \A i, j \in 1..k : i # j => s[i].id # s[j].id} : k \in 0..n}

Indexes ==
    {[opendosm |-> o, data_catalogue |-> d] :
        <<o, d>> \in {x \in RecordSeqs(MaxRecords) \X RecordSeqs(MaxRecords) :
                        Len(x[1]) + Len(x[2]) <= MaxRecords}}

(***************************************************************************)
(* list_datasets (src/cli.js 397-444).                                     *)
(***************************************************************************)
\* { ...d, source: s }
Tag(d, s) == [f \in DOMAIN d \cup {"source"} |-> IF f = "source" THEN s ELSE d[f]]
TagAll(ds, s) == [i \in 1..Len(ds) |-> Tag(ds[i], s)]

\* the destructuring defaults of the handler
ListLimit(args) == IF Has(args, "limit") THEN args.limit ELSE 100
ListOffset(args) == IF Has(args, "offset") THEN args.offset ELSE 0

\* a collection that puts the data_catalogue records first
ListCollectSwapped(index, args) ==
    (IF ~TruthyStr(args, "source") \/ args.source = "data_catalogue"
     THEN TagAll(index.data_catalogue, "data_catalogue") ELSE <<>>)
    \o
    (IF ~TruthyStr(args, "source") \/ args.source = "opendosm"
     THEN TagAll(index.opendosm, "opendosm") ELSE <<>>)

\* a collection that takes every other source for data_catalogue
ListCollectElse(index, args) ==
    (IF ~TruthyStr(args, "source") \/ args.source = "opendosm"
     THEN TagAll(index.opendosm, "opendosm") ELSE <<>>)
    \o
    (IF ~TruthyStr(args, "source") \/ args.source # "opendosm"
     THEN TagAll(index.data_catalogue, "data_catalogue") ELSE <<>>)

\* if (!source || source === "opendosm") ...; if (!source || source === "data_catalogue") ...
ListCollect(index, args) ==
    (IF ~TruthyStr(args, "source") \/ args.source = "opendosm"
     THEN TagAll(index.opendosm, "opendosm") ELSE <<>>)
    \o
    (IF ~TruthyStr(args, "source") \/ args.source = "data_catalogue"
     THEN TagAll(index.data_catalogue, "data_catalogue") ELSE <<>>)

\* a filter that lets the records with no category through
ListFilterLoose(datasets, args) ==
    IF TruthySeq(args, "category")
    THEN SelectSeq(datasets,
                   LAMBDA d : ~Has(d, "category")
                              \/ toLowerCase(d.category) = toLowerCase(args.category))
    ELSE datasets

ListFilter(datasets, args) ==
    IF TruthySeq(args, "category")
    THEN SelectSeq(datasets,
                   LAMBDA d : Has(d, "category")
                              /\ toLowerCase(d.category) = toLowerCase(args.category))
    ELSE datasets

ListPaginate(datasets, offset, limit) == slice(datasets, offset, offset + limit)

\* a handler that counts the total after pagination
list_datasets_page_total(index, args) ==
    LET datasets == ListFilter(ListCollect(index, args), args)
        paginatedDatasets == ListPaginate(datasets, ListOffset(args), ListLimit(args))
    IN  [isError |-> FALSE,
         total |-> Len(paginatedDatasets),
         limit |-> ListLimit(args),
         offset |-> ListOffset(args),
         count |-> Len(paginatedDatasets),
         datasets |-> paginatedDatasets]

list_datasets(index, args) ==
    LET datasets == ListFilter(ListCollect(index, args), args)
        paginatedDatasets == ListPaginate(datasets, ListOffset(args), ListLimit(args))
    IN  [isError |-> FALSE,
         total |-> Len(datasets),
         limit |-> ListLimit(args),
         offset |-> ListOffset(args),
         count |-> Len(paginatedDatasets),
         datasets |-> paginatedDatasets]

(***************************************************************************)
(* search_datasets (src/cli.js 446-522).                                   *)
(***************************************************************************)
SearchLimit(args) == IF Has(args, "limit") THEN args.limit ELSE 10

SearchCollect(index, args) ==
    (IF ~TruthyStr(args, "source") \/ args.source = "opendosm"
     THEN TagAll(index.opendosm, "opendosm") ELSE <<>>)
    \o
    (IF ~TruthyStr(args, "source") \/ args.source = "data_catalogue"
     THEN TagAll(index.data_catalogue, "data_catalogue") ELSE <<>>)

\* a score that adds the substring term to the exact term
IdScoreBoth(id, queryLower) ==
    (IF queryLower = toLowerCase(id) THEN 100 ELSE 0)
    + (IF includes(toLowerCase(id), queryLower) THEN 50 ELSE 0)

\* if (queryLower === id) score += 100; else if (id.includes(queryLower)) score += 50
IdScore(id, queryLower) ==
    IF queryLower = toLowerCase(id) THEN 100
    ELSE IF includes(toLowerCase(id), queryLower) THEN 50 ELSE 0

NameScore(name, queryLower) ==
    IF includes(toLowerCase(name), queryLower) THEN 30 ELSE 0

DescriptionScore(description, queryLower) ==
    IF includes(toLowerCase(description), queryLower) THEN 10 ELSE 0

RECURSIVE KeywordScore(_, _)
KeywordScore(keywords, queryLower) ==
    IF keywords = <<>> THEN 0
    ELSE (IF queryLower = toLowerCase(Head(keywords)) THEN 40
          ELSE IF includes(toLowerCase(Head(keywords)), queryLower) THEN 20 ELSE 0)
         + KeywordScore(Tail(keywords), queryLower)

Score(dataset, queryLower) ==
    IdScore(dataset.id, queryLower)
    + NameScore(dataset.name, queryLower)
    + DescriptionScore(dataset.description, queryLower)
    + KeywordScore(IF Has(dataset, "keywords") THEN dataset.keywords ELSE <<>>,
                   queryLower)

\* a scoring loop that also keeps the records that match nowhere
KeepZero(score) == score >= 0

\* if (score > 0) scoredDatasets.push([score, dataset])
Keep(score) == score > 0

Scored(datasets, queryLower) ==
    SelectSeq([i \in 1..Len(datasets) |->
                   <<Score(datasets[i], queryLower), datasets[i]>>],
              LAMBDA e : Keep(e[1]))

\* the comparator (a, b) => b[0] - a[0]
Compare(a, b) == b[1] - a[1]

\* Array.prototype.sort is stable: an element goes after every element that the
\* comparator does not put behind it
\* a sort that puts an element before the elements it ties with
RECURSIVE InsertBeforeTies(_, _)
InsertBeforeTies(sorted, e) ==
    IF sorted = <<>> THEN <<e>>
    ELSE IF Compare(Head(sorted), e) >= 0
         THEN <<e>> \o sorted
         ELSE <<Head(sorted)>> \o InsertBeforeTies(Tail(sorted), e)

RECURSIVE Insert(_, _)
Insert(sorted, e) ==
    IF sorted = <<>> THEN <<e>>
    ELSE IF Compare(Head(sorted), e) > 0
         THEN <<e>> \o sorted
         ELSE <<Head(sorted)>> \o Insert(Tail(sorted), e)

RECURSIVE Sort(_)
Sort(arr) ==
    IF arr = <<>> THEN <<>>
    ELSE Insert(Sort(SubSeq(arr, 1, Len(arr) - 1)), arr[Len(arr)])

SearchSlice(sorted, limit) == slice(sorted, 0, limit)

\* query.toLowerCase() or dataset.description.toLowerCase() on undefined
SearchThrows(index, args) ==
    \/ ~Has(args, "query")
    \/ \E i \in 1..Len(SearchCollect(index, args)) :
           ~Has(SearchCollect(index, args)[i], "description")

SearchSorted(index, args) ==
    Sort(Scored(SearchCollect(index, args), toLowerCase(args.query)))

search_datasets(index, args) ==
    LET picked == SearchSlice(SearchSorted(index, args), SearchLimit(args))
        results == [i \in 1..Len(picked) |-> picked[i][2]]
    IN  [isError |-> FALSE,
         query |-> args.query,
         count |-> Len(results),
         datasets |-> results]

\* a catch block that returns what the handler had gathered with the error
ErrorResultPartial(message, name, args) ==
    [isError |-> TRUE, error |-> message, tool |-> name, arguments |-> args,
     info |-> name]

\* a catch block that reports the message alone
ErrorResultBare(message, name, args) == [isError |-> TRUE, error |-> message]

\* the catch block of the CallTool handler
ErrorResult(message, name, args) ==
    [isError |-> TRUE, error |-> message, tool |-> name, arguments |-> args]

(***************************************************************************)
(* DataGovMyClient (src/src/client.ts).  A filter value is a JavaScript    *)
(* value: a string, a number, a boolean or null.                           *)
(***************************************************************************)
OPENDOSM_BASE_URL == "https://api.data.gov.my/opendosm"
DATA_CATALOGUE_BASE_URL == "https://api.data.gov.my/data-catalogue"

Digits == <<"0","1","2","3","4","5","6","7","8","9">>

RECURSIVE NatToString(_)
NatToString(n) ==
    IF n < 10 THEN <<Digits[n + 1]>>
    ELSE NatToString(n \div 10) \o <<Digits[(n % 10) + 1]>>

\* Number.prototype.toString of an integer
NumberToString(n) == IF n < 0 THEN <<"-">> \o NatToString(-n) ELSE NatToString(n)

\* String(value)
String(value) ==
    CASE value.type = "string" -> value.v
      [] value.type = "number" -> NumberToString(value.v)
      [] value.type = "boolean" ->
            IF value.v THEN <<"t","r","u","e">> ELSE <<"f","a","l","s","e">>
      [] value.type = "null" -> <<"n","u","l","l">>

\* const { filters, limit = 100, offset = 0, metaOnly = false } = options
OptLimit(options) == IF Has(options, "limit") THEN options.limit ELSE 100
OptOffset(options) == IF Has(options, "offset") THEN options.offset ELSE 0
OptMetaOnly(options) == IF Has(options, "metaOnly") THEN options.metaOnly ELSE FALSE

\* a loop that stops one filter short
FilterParamsShort(options) ==
    IF Has(options, "filters")
    THEN [i \in 1..(Len(options.filters) - 1) |->
              <<options.filters[i][1], String(options.filters[i][2])>>]
    ELSE <<>>

\* Object.entries(filters).forEach(([key, value]) => params.append(key, String(value)))
FilterParams(options) ==
    IF Has(options, "filters")
    THEN [i \in 1..Len(options.filters) |->
              <<options.filters[i][1], String(options.filters[i][2])>>]
    ELSE <<>>

\* a query that sends limit and offset with meta_only as well
PagingParamsBoth(options) ==
    (IF OptMetaOnly(options) THEN << <<"meta_only", <<"t","r","u","e">> >> >> ELSE <<>>)
    \o << <<"limit", NumberToString(OptLimit(options))>>,
          <<"offset", NumberToString(OptOffset(options))>> >>

\* if (metaOnly) append meta_only=true, else append limit and offset
PagingParams(options) ==
    IF OptMetaOnly(options)
    THEN << <<"meta_only", <<"t","r","u","e">> >> >>
    ELSE << <<"limit", NumberToString(OptLimit(options))>>,
            <<"offset", NumberToString(OptOffset(options))>> >>

\* the URLSearchParams of queryOpenDOSM, as the list of its key/value pairs
OpenDOSMParams(datasetId, options) ==
    << <<"id", datasetId>> >> \o PagingParams(options) \o FilterParams(options)

\* the URLSearchParams of queryDataCatalogue
DataCatalogueParams(datasetId, options) ==
    << <<"id", datasetId>> >> \o PagingParams(options) \o FilterParams(options)

\* fetch(url, { signal, headers }): the request, with the controller of its signal
Fetch(base, params, signal) ==
    [method |-> "GET", base |-> base, params |-> params,
     headers |-> [Accept |-> "application/json"], signal |-> signal]

(***************************************************************************)
(* JSON.  A JSON text is a sequence of characters; a JavaScript value is a *)
(* tagged record: null, a boolean, a number, a string, an array (the       *)
(* sequence of its elements) or an object (the sequence of its key/value   *)
(* pairs, in insertion order).  The indentation that JSON.stringify(v,     *)
(* null, 2) adds between tokens is left out: it carries no value.          *)
(***************************************************************************)
J_null == [type |-> "null"]
J_bool(b) == [type |-> "boolean", v |-> b]
J_num(n) == [type |-> "number", v |-> n]
J_str(s) == [type |-> "string", v |-> s]
J_arr(a) == [type |-> "array", v |-> a]
J_obj(o) == [type |-> "object", v |-> o]

DQ == "\""

\* the characters of the property names in use
KeyChars(k) ==
    CASE k = "date" -> <<"d","a","t","e">>
      [] k = "year" -> <<"y","e","a","r">>
      [] k = "limit" -> <<"l","i","m","i","t">>
      [] k = "state" -> <<"s","t","a","t","e">>
      [] k = "rows" -> <<"r","o","w","s">>
      [] k = "0" -> <<"0">>
      [] k = "1" -> <<"1">>
      [] k = "2" -> <<"2">>

RECURSIVE Join(_)
Join(parts) ==
    IF parts = <<>> THEN <<>>
    ELSE IF Len(parts) = 1 THEN parts[1]
    ELSE parts[1] \o <<",">> \o Join(Tail(parts))

\* JSON.stringify(value)
RECURSIVE JSONstringify(_)
JSONstringify(value) ==
    CASE value.type = "null" -> <<"n","u","l","l">>
      [] value.type = "boolean" ->
            IF value.v THEN <<"t","r","u","e">> ELSE <<"f","a","l","s","e">>
      [] value.type = "number" -> NumberToString(value.v)
      [] value.type = "string" -> <<DQ>> \o value.v \o <<DQ>>
      [] value.type = "array" ->
            <<"[">> \o Join([i \in 1..Len(value.v) |-> JSONstringify(value.v[i])])
                    \o <<"]">>
      [] value.type = "object" ->
            <<"{">> \o Join([i \in 1..Len(value.v) |->
                                <<DQ>> \o KeyChars(value.v[i][1]) \o <<DQ, ":">>
                                       \o JSONstringify(value.v[i][2])])
                    \o <<"}">>

S_ab == <<"a","b">>

\* the values a JSON text of the model can denote
JsonValues ==
    { J_null, J_bool(FALSE), J_num(0), J_num(5), J_str(<<>>), J_str(S_ab),
      J_arr(<<J_num(5), J_num(2024)>>),
      J_obj(<<>>),
      J_obj(<< <<"date", J_str(S_date)>> >>),
      J_obj(<< <<"date", J_str(S_date)>>, <<"year", J_num(2024)>> >>),
      J_obj(<< <<"limit", J_bool(TRUE)>>, <<"state", J_null>> >>),
      J_obj(<< <<"year", J_num(2024)>> >>),
      J_obj(<< <<"rows", J_arr(<<J_num(5)>>)>> >>) }

\* JSON.parse(text): the value the text denotes, or a SyntaxError
JSONparse(text) ==
    IF \E value \in JsonValues : JSONstringify(value) = text
    THEN [ok |-> TRUE, value |-> CHOOSE value \in JsonValues : JSONstringify(value) = text]
    ELSE [ok |-> FALSE]

\* the truthiness of a JavaScript value
Truthy(value) ==
    CASE value.type = "null" -> FALSE
      [] value.type = "boolean" -> value.v
      [] value.type = "number" -> value.v # 0
      [] value.type = "string" -> value.v # <<>>
      [] value.type \in {"array", "object"} -> TRUE

IndexKeys == <<"0", "1", "2">>

\* Object.entries(value): the own enumerable string-keyed properties
ObjectEntries(value) ==
    CASE value.type = "object" -> value.v
      [] value.type = "array" ->
            [i \in 1..Len(value.v) |-> <<IndexKeys[i], value.v[i]>>]
      [] value.type = "string" ->
            [i \in 1..Len(value.v) |-> <<IndexKeys[i], J_str(<<value.v[i]>>)>>]
      [] value.type \in {"number", "boolean"} -> <<>>

(***************************************************************************)
(* The CallTool handler's use of the client (src/cli.js 326-601).          *)
(***************************************************************************)
S_undefined == <<"u","n","d","e","f","i","n","e","d">>
S_Unknown == <<"U","n","k","n","o","w","n">>

\* the errors thrown, by their message
SyntaxError == [message |-> "Unexpected token in JSON"]
TypeError == [message |-> "Cannot read properties of undefined"]
InvalidSource == [message |-> "Invalid source. Must be 'opendosm' or 'data_catalogue'"]
UnknownToolUnnamed(name) == [message |-> "Unknown tool"]
UnknownTool(name) == [message |-> "Unknown tool: ", name |-> name]
AbortError == [message |-> "This operation was aborted"]
NetworkError == [message |-> "fetch failed"]

\* new URLSearchParams({ id: datasetId }) with the dataset_id argument
ToolDatasetId(args) == IF Has(args, "dataset_id") THEN args.dataset_id ELSE S_undefined

\* a handler that raises a negative limit to 0
ToolLimitClamped(args) == IF Has(args, "limit") THEN Max(args.limit, 0) ELSE 100

\* const { dataset_id, filters, limit = 100, offset = 0 } = args
ToolLimit(args) == IF Has(args, "limit") THEN args.limit ELSE 100
ToolOffset(args) == IF Has(args, "offset") THEN args.offset ELSE 0

\* filters ? JSON.parse(filters) : undefined
FiltersGiven(args) == Has(args, "filters") /\ args.filters # <<>>
FiltersThrow(args) == FiltersGiven(args) /\ ~JSONparse(args.filters).ok

\* { filters: filterDict, limit, offset }; the options hold filters when the
\* client's `if (filters)` finds filterDict truthy, as its Object.entries
ToolOptions(args) ==
    IF FiltersGiven(args) /\ Truthy(JSONparse(args.filters).value)
    THEN [filters |-> ObjectEntries(JSONparse(args.filters).value),
          limit |-> ToolLimit(args), offset |-> ToolOffset(args)]
    ELSE [limit |-> ToolLimit(args), offset |-> ToolOffset(args)]

\* a check that accepts every source that is given
ValidSourceLoose(args) == Has(args, "source")

\* source === "opendosm" / source === "data_catalogue" / else throw
ValidSource(args) == Has(args, "source") /\ args.source \in {"opendosm", "data_catalogue"}

\* source === "opendosm" ? "opendosm" : "data_catalogue"
SourceKey(args) ==
    IF Has(args, "source") /\ args.source = "opendosm" THEN "opendosm"
    ELSE "data_catalogue"

\* a lookup that tries both sources
DatasetInfoAnySource(index, args) ==
    LET all == index.opendosm \o index.data_catalogue
        hits == SelectSeq(all, LAMBDA ds : ds.id = args.dataset_id)
    IN  IF hits = <<>> THEN [id |-> args.dataset_id, name |-> S_Unknown] ELSE hits[1]

\* DATASETS_INDEX[sourceKey]?.find(ds => ds.id === dataset_id)
\*     || { id: dataset_id, name: "Unknown" }
DatasetInfo(index, args) ==
    LET hits == SelectSeq(index[SourceKey(args)], LAMBDA ds : ds.id = args.dataset_id)
    IN  IF hits = <<>> THEN [id |-> args.dataset_id, name |-> S_Unknown] ELSE hits[1]

\* a return that wraps the upstream value in an object of its own
TextResultWrapped(data) ==
    [isError |-> FALSE, text |-> JSONstringify(J_obj(<< <<"rows", data>> >>))]

\* the successful return of a tool that passes the upstream value through
TextResult(data) == [isError |-> FALSE, text |-> JSONstringify(data)]

\* a result that holds the sample as metadata and the metadata as sample
SchemaResultSwapped(args, info, metadata, sampleData) ==
    [isError |-> FALSE,
     result |-> [dataset_id |-> args.dataset_id, source |-> args.source,
                 info |-> info, metadata |-> sampleData, sample_data |-> metadata]]

\* the successful return of get_dataset_schema
SchemaResult(args, info, metadata, sampleData) ==
    [isError |-> FALSE,
     result |-> [dataset_id |-> args.dataset_id, source |-> args.source,
                 info |-> info, metadata |-> metadata, sample_data |-> sampleData]]

(***************************************************************************)
(* Inputs.                                                                 *)
(***************************************************************************)
Opt(S) == {{}} \cup {{x} : x \in S}
\* the object holding the fields of w that are given
Obj(w) == [f \in {g \in DOMAIN w : w[g] # {}} |-> CHOOSE x \in w[f] : TRUE]

Nums == -1..MaxNum
SourceArgs == {"opendosm", "data_catalogue", "", "other"}
CategoryArgs == {<<>>, S_Prices, S_Economy, S_Health}
Queries == {<<>>, S_gdp, S_GDP, S_inflation, S_Health}

ListArgs ==
    {Obj([source |-> s, category |-> c, limit |-> l, offset |-> o]) :
        s \in Opt(SourceArgs), c \in Opt(CategoryArgs),
        l \in Opt(Nums), o \in Opt(Nums)}

SearchArgs ==
    {Obj([query |-> q, source |-> s, limit |-> l]) :
        q \in Opt(Queries), s \in Opt(SourceArgs), l \in Opt(Nums)}

FilterMaps ==
    { <<>>,
      << <<"date", [type |-> "string", v |-> S_date]>> >>,
      << <<"date", [type |-> "string", v |-> S_date]>>,
         <<"year", [type |-> "number", v |-> 2024]>> >>,
      << <<"limit", [type |-> "boolean", v |-> TRUE]>>,
         <<"state", [type |-> "null"]>> >> }

QueryOptions ==
    {Obj([filters |-> f, limit |-> l, offset |-> o, metaOnly |-> m]) :
        f \in Opt(FilterMaps), l \in Opt({-1, 5}), o \in Opt({0, 20}),
        m \in Opt(BOOLEAN)}

DatasetIds == {S_fuelprice}
Statuses == {200, 404}

\* a text that is not JSON
S_html == <<"<","h","t","m","l",">">>

\* the filters argument of the query tools: the empty string, encodings of
\* filter maps, encodings of other values, and a text that is not JSON
FilterTexts ==
    { <<>>,
      JSONstringify(J_obj(<< <<"date", J_str(S_date)>> >>)),
      JSONstringify(J_obj(<<>>)),
      JSONstringify(J_arr(<<J_num(5), J_num(2024)>>)),
      JSONstringify(J_str(S_ab)),
      JSONstringify(J_num(5)),
      JSONstringify(J_null),
      <<"{","d","a","t","e">> }

QueryToolArgs ==
    {Obj([dataset_id |-> d, filters |-> f, limit |-> l, offset |-> o]) :
        d \in Opt(DatasetIds), f \in Opt(FilterTexts), l \in Opt({-1, 5}),
        o \in Opt({-1})}

MetadataToolArgs ==
    {Obj([dataset_id |-> d, source |-> s]) :
        d \in {{S_gdp}, {S_fuelprice}}, s \in Opt(SourceArgs)}

ToolNames == {"query_opendosm", "query_data_catalogue", "get_dataset_metadata",
              "list_datasets", "search_datasets", "get_dataset_schema"}
OtherNames == {"delete_dataset", "Query_OpenDOSM"}

\* the bodies upstream answers with
Bodies ==
    { JSONstringify(J_obj(<< <<"year", J_num(2024)>> >>)),
      JSONstringify(J_obj(<< <<"rows", J_arr(<<J_num(5)>>)>> >>)),
      S_html }

StatusText(status) == IF status = 200 THEN "OK" ELSE "Not Found"

\* the responses of the upstream API
Responses ==
    {[status |-> 200, statusText |-> StatusText(200), body |-> b] : b \in Bodies}
    \cup {[status |-> st, statusText |-> StatusText(st), body |-> S_html] :
             st \in Statuses \ {200}}

(***************************************************************************)
(* The state machine.                                                      *)
(***************************************************************************)
Init ==
    /\ DATASETS_INDEX \in Indexes
    /\ pc = "idle"
    /\ call = Null
    /\ scoredDatasets = <<>>
    /\ request = Null
    /\ abortController = Null
    /\ response = Null
    /\ controllers = <<>>
    /\ log = <<>>
    /\ reply = Null
    /\ promises = <<>>

client == <<request, abortController, controllers, log, reply, promises>>

\* a handler that writes the source into the index records themselves
CallListDatasetsInPlace(args) ==
    /\ pc = "idle"
    /\ pc' = "done"
    /\ call' = [name |-> "list_datasets", args |-> args]
    /\ response' = list_datasets(DATASETS_INDEX, args)
    /\ DATASETS_INDEX' =
          [opendosm |-> TagAll(DATASETS_INDEX.opendosm, "opendosm"),
           data_catalogue |-> TagAll(DATASETS_INDEX.data_catalogue, "data_catalogue")]
    /\ UNCHANGED <<scoredDatasets, client>>

\* CallTool handler, case "list_datasets"
CallListDatasets(args) ==
    /\ pc = "idle"
    /\ pc' = "done"
    /\ call' = [name |-> "list_datasets", args |-> args]
    /\ response' = list_datasets(DATASETS_INDEX, args)
    /\ UNCHANGED <<DATASETS_INDEX, scoredDatasets, client>>

\* CallTool handler, case "search_datasets"; a TypeError goes to the catch block
CallSearchDatasets(args) ==
    /\ pc = "idle"
    /\ pc' = "done"
    /\ call' = [name |-> "search_datasets", args |-> args]
    /\ IF SearchThrows(DATASETS_INDEX, args)
       THEN /\ response' = ErrorResult(TypeError, "search_datasets", args)
            /\ scoredDatasets' = <<>>
       ELSE /\ response' = search_datasets(DATASETS_INDEX, args)
            /\ scoredDatasets' = SearchSorted(DATASETS_INDEX, args)
    /\ UNCHANGED <<DATASETS_INDEX, client>>

\* a client that keeps the controller it holds when a query starts
SendKeepsHandle(base, params) ==
    LET signal == Len(controllers) + 1
        req == Fetch(base, params, signal)
    IN  /\ controllers' = Append(controllers, FALSE)
        /\ abortController' =
              IF abortController = Null THEN [controller |-> signal] ELSE abortController
        /\ request' = req
        /\ log' = Append(log, req)

\* a client that aborts the request it holds when a query starts
SendAbortsPrevious(base, params) ==
    LET signal == Len(controllers) + 1
        req == Fetch(base, params, signal)
    IN  /\ controllers' =
              Append(IF abortController = Null THEN controllers
                     ELSE [controllers EXCEPT ![abortController.controller] = TRUE],
                     FALSE)
        /\ abortController' = [controller |-> signal]
        /\ request' = req
        /\ log' = Append(log, req)

\* this.abortController = new AbortController(); fetch(url, { signal, headers })
Send(base, params) ==
    LET signal == Len(controllers) + 1
        req == Fetch(base, params, signal)
    IN  /\ controllers' = Append(controllers, FALSE)
        /\ abortController' = [controller |-> signal]
        /\ request' = req
        /\ log' = Append(log, req)

\* a Data Catalogue query sent to the OpenDOSM endpoint
SendDataCatalogueElsewhere(datasetId, options) ==
    Send(OPENDOSM_BASE_URL, DataCatalogueParams(datasetId, options))

\* queryOpenDOSM / queryDataCatalogue up to the await of fetch
SendOpenDOSM(datasetId, options) ==
    Send(OPENDOSM_BASE_URL, OpenDOSMParams(datasetId, options))
SendDataCatalogue(datasetId, options) ==
    Send(DATA_CATALOGUE_BASE_URL, DataCatalogueParams(datasetId, options))

\* DataGovMyClient.queryOpenDOSM called on its own
queryOpenDOSM(datasetId, options) ==
    /\ pc = "idle"
    /\ Len(controllers) < MaxControllers
    /\ pc' = "fetching"
    /\ call' = [name |-> "queryOpenDOSM", client |-> "queryOpenDOSM",
                datasetId |-> datasetId, options |-> options]
    /\ SendOpenDOSM(datasetId, options)
    /\ UNCHANGED <<DATASETS_INDEX, scoredDatasets, response, reply, promises>>

\* DataGovMyClient.queryDataCatalogue called on its own
queryDataCatalogue(datasetId, options) ==
    /\ pc = "idle"
    /\ Len(controllers) < MaxControllers
    /\ pc' = "fetching"
    /\ call' = [name |-> "queryDataCatalogue", client |-> "queryDataCatalogue",
                datasetId |-> datasetId, options |-> options]
    /\ SendDataCatalogue(datasetId, options)
    /\ UNCHANGED <<DATASETS_INDEX, scoredDatasets, response, reply, promises>>

\* the handler returns without a request
Finish(name, args, result) ==
    /\ pc' = "done"
    /\ call' = [name |-> name, args |-> args]
    /\ response' = result
    /\ UNCHANGED <<DATASETS_INDEX, scoredDatasets, client>>

\* the handler awaits a query of the client
Await(name, args, method) ==
    /\ pc' = "fetching"
    /\ call' = [name |-> name, args |-> args, client |-> method]
    /\ UNCHANGED <<DATASETS_INDEX, scoredDatasets, response, reply, promises>>

\* CallTool handler, case "query_opendosm"
CallQueryOpenDOSM(args) ==
    /\ pc = "idle"
    /\ Len(controllers) < MaxControllers
    /\ IF FiltersThrow(args)
       THEN Finish("query_opendosm", args,
                   ErrorResult(SyntaxError, "query_opendosm", args))
       ELSE /\ Await("query_opendosm", args, "queryOpenDOSM")
            /\ SendOpenDOSM(ToolDatasetId(args), ToolOptions(args))

\* CallTool handler, case "query_data_catalogue"
CallQueryDataCatalogue(args) ==
    /\ pc = "idle"
    /\ Len(controllers) < MaxControllers
    /\ IF FiltersThrow(args)
       THEN Finish("query_data_catalogue", args,
                   ErrorResult(SyntaxError, "query_data_catalogue", args))
       ELSE /\ Await("query_data_catalogue", args, "queryDataCatalogue")
            /\ SendDataCatalogue(ToolDatasetId(args), ToolOptions(args))

\* a metadata query that leaves metaOnly out
MetadataQueryPlain(name, args) ==
    IF ~ValidSource(args)
    THEN Finish(name, args, ErrorResult(InvalidSource, name, args))
    ELSE IF args.source = "opendosm"
    THEN /\ Await(name, args, "queryOpenDOSM")
         /\ SendOpenDOSM(args.dataset_id, [limit |-> 100])
    ELSE /\ Await(name, args, "queryDataCatalogue")
         /\ SendDataCatalogue(args.dataset_id, [limit |-> 100])

\* the metadata query of get_dataset_metadata and get_dataset_schema
MetadataQuery(name, args) ==
    IF ~ValidSource(args)
    THEN Finish(name, args, ErrorResult(InvalidSource, name, args))
    ELSE IF args.source = "opendosm"
    THEN /\ Await(name, args, "queryOpenDOSM")
         /\ SendOpenDOSM(args.dataset_id, [metaOnly |-> TRUE])
    ELSE /\ Await(name, args, "queryDataCatalogue")
         /\ SendDataCatalogue(args.dataset_id, [metaOnly |-> TRUE])

\* CallTool handler, case "get_dataset_metadata"
CallGetDatasetMetadata(args) ==
    /\ pc = "idle"
    /\ Len(controllers) < MaxControllers
    /\ MetadataQuery("get_dataset_metadata", args)

\* CallTool handler, case "get_dataset_schema", up to its first await
CallGetDatasetSchema(args) ==
    /\ pc = "idle"
    /\ Len(controllers) + 1 < MaxControllers
    /\ MetadataQuery("get_dataset_schema", args)

\* CallTool handler, the default case
CallUnknownTool(name, args) ==
    /\ pc = "idle"
    /\ name \notin ToolNames
    /\ Finish(name, args, ErrorResult(UnknownTool(name), name, args))

\* a query that reads the body whatever the status
OpenDOSMResultAnyStatus(resp) ==
    IF ~JSONparse(resp.body).ok THEN [threw |-> TRUE, error |-> SyntaxError]
    ELSE [threw |-> FALSE, value |-> JSONparse(resp.body).value]

\* if (!response.ok) throw ...; return response.json()
OpenDOSMResult(resp) ==
    IF ~(resp.status >= 200 /\ resp.status <= 299)
    THEN [threw |-> TRUE,
          error |-> [message |-> "OpenDOSM API error: ", status |-> resp.status,
                     statusText |-> resp.statusText]]
    ELSE IF ~JSONparse(resp.body).ok THEN [threw |-> TRUE, error |-> SyntaxError]
    ELSE [threw |-> FALSE, value |-> JSONparse(resp.body).value]

DataCatalogueResult(resp) ==
    IF ~(resp.status >= 200 /\ resp.status <= 299)
    THEN [threw |-> TRUE,
          error |-> [message |-> "Data Catalogue API error: ", status |-> resp.status,
                     statusText |-> resp.statusText]]
    ELSE IF ~JSONparse(resp.body).ok THEN [threw |-> TRUE, error |-> SyntaxError]
    ELSE [threw |-> FALSE, value |-> JSONparse(resp.body).value]

\* the promise of the query a caller awaits
Thrown(error) == [threw |-> TRUE, error |-> error]
QueryResult(resp) ==
    IF call.client = "queryOpenDOSM" THEN OpenDOSMResult(resp)
    ELSE DataCatalogueResult(resp)

ClientMethods == {"queryOpenDOSM", "queryDataCatalogue"}
PassThroughTools == {"query_opendosm", "query_data_catalogue", "get_dataset_metadata"}

\* the invocation ends with this result
Settle(result) ==
    /\ pc' = "done"
    /\ response' = result
    /\ UNCHANGED <<call, request, abortController, controllers, log>>

\* the code after the await: the caller of the client's method, or the rest
\* of the tool's case and the catch block
Resume(outcome) ==
    CASE call.name \in ClientMethods ->
            Settle(IF outcome.threw THEN [isError |-> TRUE, error |-> outcome.error]
                   ELSE [isError |-> FALSE, value |-> outcome.value])
      [] call.name \in PassThroughTools ->
            Settle(IF outcome.threw
                   THEN ErrorResult(outcome.error, call.name, call.args)
                   ELSE TextResult(outcome.value))
      [] call.name = "get_dataset_schema" /\ outcome.threw ->
            Settle(ErrorResult(outcome.error, call.name, call.args))
      [] call.name = "get_dataset_schema" /\ ~outcome.threw /\ ~Has(call, "metadata") ->
            /\ pc' = "fetching"
            /\ call' = [name |-> call.name, args |-> call.args, client |-> call.client,
                        metadata |-> outcome.value]
            /\ IF call.args.source = "opendosm"
               THEN SendOpenDOSM(call.args.dataset_id, [limit |-> 3])
               ELSE SendDataCatalogue(call.args.dataset_id, [limit |-> 3])
            /\ UNCHANGED response
      [] call.name = "get_dataset_schema" /\ ~outcome.threw /\ Has(call, "metadata") ->
            Settle(SchemaResult(call.args, DatasetInfo(DATASETS_INDEX, call.args),
                                call.metadata, outcome.value))

\* upstream answers the request in flight
FetchResolves(resp) ==
    /\ pc = "fetching"
    /\ ~controllers[request.signal]
    /\ reply' = resp
    /\ Resume(QueryResult(resp))
    /\ UNCHANGED <<DATASETS_INDEX, scoredDatasets, promises>>

\* the request in flight fails on the network
FetchFails ==
    /\ pc = "fetching"
    /\ ~controllers[request.signal]
    /\ reply' = Null
    /\ Resume(Thrown(NetworkError))
    /\ UNCHANGED <<DATASETS_INDEX, scoredDatasets, promises>>

\* the request in flight is rejected because its signal was aborted
FetchAborts ==
    /\ pc = "fetching"
    /\ controllers[request.signal]
    /\ reply' = Null
    /\ Resume(Thrown(AbortError))
    /\ UNCHANGED <<DATASETS_INDEX, scoredDatasets, promises>>

\* a close that aborts the controller and keeps holding it
closeKeepsHandle ==
    /\ IF abortController # Null
       THEN controllers' = [controllers EXCEPT ![abortController.controller] = TRUE]
       ELSE UNCHANGED controllers
    /\ UNCHANGED <<DATASETS_INDEX, pc, call, scoredDatasets, request, response,
                   abortController, log, reply, promises>>

\* a close that forgets the controller without aborting it
closeForgets ==
    /\ abortController' = Null
    /\ UNCHANGED <<DATASETS_INDEX, pc, call, scoredDatasets, request, response,
                   controllers, log, reply, promises>>

\* DataGovMyClient.close()
close ==
    /\ IF abortController # Null
       THEN /\ controllers' = [controllers EXCEPT ![abortController.controller] = TRUE]
            /\ abortController' = Null
       ELSE UNCHANGED <<controllers, abortController>>
    /\ UNCHANGED <<DATASETS_INDEX, pc, call, scoredDatasets, request, response,
                   log, reply, promises>>

\* a query of the client that others may overlap: the state of its promise
Pending(method) == [pending |-> TRUE, client |-> method]
IsPending(k) == k \in 1..Len(promises) /\ Has(promises[k], "pending")

\* queryOpenDOSM started while other queries of the client may be in flight
StartOpenDOSM(datasetId, options) ==
    /\ Len(controllers) < MaxControllers
    /\ SendOpenDOSM(datasetId, options)
    /\ promises' = Append(promises, Pending("queryOpenDOSM"))
    /\ UNCHANGED <<DATASETS_INDEX, pc, call, scoredDatasets, response, reply>>

\* queryDataCatalogue started while other queries of the client may be in flight
StartDataCatalogue(datasetId, options) ==
    /\ Len(controllers) < MaxControllers
    /\ SendDataCatalogue(datasetId, options)
    /\ promises' = Append(promises, Pending("queryDataCatalogue"))
    /\ UNCHANGED <<DATASETS_INDEX, pc, call, scoredDatasets, response, reply>>

\* upstream answers the k-th request, whose signal is not aborted
Answer(k, resp) ==
    /\ IsPending(k)
    /\ ~controllers[k]
    /\ promises' = [promises EXCEPT ![k] =
                      IF promises[k].client = "queryOpenDOSM" THEN OpenDOSMResult(resp)
                      ELSE DataCatalogueResult(resp)]
    /\ UNCHANGED <<DATASETS_INDEX, pc, call, scoredDatasets, request, abortController,
                   response, controllers, log, reply>>

\* the k-th request is rejected because its signal was aborted
Reject(k) ==
    /\ IsPending(k)
    /\ controllers[k]
    /\ promises' = [promises EXCEPT ![k] = Thrown(AbortError)]
    /\ UNCHANGED <<DATASETS_INDEX, pc, call, scoredDatasets, request, abortController,
                   response, controllers, log, reply>>

\* the text of a resource, as the list of its lines; ${d.description} of a
\* record without description reads "undefined"
AllLines(datasets) ==
    [i \in 1..Len(datasets) |->
        [id |-> datasets[i].id, name |-> datasets[i].name,
         description |-> IF Has(datasets[i], "description")
                         THEN datasets[i].description ELSE S_undefined]]
PopularLines(datasets, label) ==
    [i \in 1..Len(slice(datasets, 0, 10)) |->
        [id |-> datasets[i].id, label |-> label, name |-> datasets[i].name]]

ResourceUris == {"dataset://opendosm/all", "dataset://data-catalogue/all",
                 "dataset://popular", "dataset://other"}

\* ReadResource handler; the default case throws out of the handler
ReadResource(uri) ==
    /\ pc = "idle"
    /\ pc' = "done"
    /\ call' = [uri |-> uri]
    /\ response' =
          CASE uri = "dataset://opendosm/all" ->
                  [title |-> "# OpenDOSM Datasets",
                   lines |-> AllLines(DATASETS_INDEX.opendosm)]
            [] uri = "dataset://data-catalogue/all" ->
                  [title |-> "# Data Catalogue Datasets",
                   lines |-> AllLines(DATASETS_INDEX.data_catalogue)]
            [] uri = "dataset://popular" ->
                  [title |-> "# Popular Datasets",
                   lines |-> PopularLines(DATASETS_INDEX.opendosm, "OpenDOSM")
                             \o PopularLines(DATASETS_INDEX.data_catalogue,
                                             "Data Catalogue")]
            [] OTHER -> Thrown([message |-> "Unknown resource: ", uri |-> uri])
    /\ UNCHANGED <<DATASETS_INDEX, scoredDatasets, client>>

\* process.on("SIGINT" / "SIGTERM"): apiClient.close(); process.exit(0).
\* The process ends; an invocation in progress never returns.
Shutdown ==
    /\ pc # "exited"
    /\ pc' = "exited"
    /\ IF abortController # Null
       THEN /\ controllers' = [controllers EXCEPT ![abortController.controller] = TRUE]
            /\ abortController' = Null
       ELSE UNCHANGED <<controllers, abortController>>
    /\ UNCHANGED <<DATASETS_INDEX, call, scoredDatasets, request, response, log, reply,
                   promises>>

\* the caller takes the result; the next invocation can start
Return ==
    /\ pc = "done"
    /\ pc' = "idle"
    /\ call' = Null
    /\ response' = Null
    /\ request' = Null
    /\ scoredDatasets' = <<>>
    /\ log' = <<>>
    /\ reply' = Null
    /\ UNCHANGED <<DATASETS_INDEX, abortController, controllers, promises>>

\* the tools that read the static index
NextIndex ==
    \/ \E args \in ListArgs : CallListDatasets(args)
    \/ \E args \in SearchArgs : CallSearchDatasets(args)
    \/ Return

\* the API client
NextClient ==
    \/ \E d \in DatasetIds, o \in QueryOptions : queryOpenDOSM(d, o)
    \/ \E d \in DatasetIds, o \in QueryOptions : queryDataCatalogue(d, o)
    \/ \E resp \in Responses : FetchResolves(resp)
    \/ FetchFails
    \/ FetchAborts
    \/ close
    \/ Return

\* the tools that query upstream, and the default case
NextTools ==
    \/ \E args \in QueryToolArgs : CallQueryOpenDOSM(args)
    \/ \E args \in QueryToolArgs : CallQueryDataCatalogue(args)
    \/ \E args \in MetadataToolArgs : CallGetDatasetMetadata(args)
    \/ \E args \in MetadataToolArgs : CallGetDatasetSchema(args)
    \/ \E name \in OtherNames, args \in MetadataToolArgs : CallUnknownTool(name, args)
    \/ \E resp \in Responses : FetchResolves(resp)
    \/ FetchFails
    \/ Return

\* the options of the queries made side by side
ConcurrentOptions == {[metaOnly |-> TRUE], [limit |-> 5]}

\* the client with queries in flight side by side
NextConcurrent ==
    \/ \E d \in DatasetIds, o \in ConcurrentOptions : StartOpenDOSM(d, o)
    \/ \E d \in DatasetIds, o \in ConcurrentOptions : StartDataCatalogue(d, o)
    \/ \E k \in 1..Len(promises), resp \in Responses : Answer(k, resp)
    \/ \E k \in 1..Len(promises) : Reject(k)
    \/ close

Next ==
    \/ NextIndex
    \/ NextClient
    \/ NextTools
    \/ NextConcurrent
    \/ \E uri \in ResourceUris : ReadResource(uri)
    \/ Shutdown

Spec == Init /\ [][Next]_vars

\* the index tools alone, over every index
SpecIndex == Init /\ [][NextIndex]_vars

\* the client alone; it never reads the index
InitClient == Init /\ DATASETS_INDEX = [opendosm |-> <<>>, data_catalogue |-> <<>>]
SpecClient == InitClient /\ [][NextClient]_vars
SpecConcurrent == InitClient /\ [][NextConcurrent]_vars

\* the CallTool handler: its six tools and the default case, over the
\* indexes of at most one record
ToolIndexes ==
    {index \in Indexes : Len(index.opendosm) + Len(index.data_catalogue) <= 1}
ToolListArgs == {args \in ListArgs : DOMAIN args \subseteq {"source"}}
ToolSearchArgs == {args \in SearchArgs : DOMAIN args \subseteq {"query"}}
NextHandler ==
    \/ \E args \in ToolListArgs : CallListDatasets(args)
    \/ \E args \in ToolSearchArgs : CallSearchDatasets(args)
    \/ NextTools
    \/ Shutdown
InitTools == Init /\ DATASETS_INDEX \in ToolIndexes
SpecTools == InitTools /\ [][NextHandler]_vars

\* the server over every index: all tools and the resources, the upstream
\* tools with one argument object per outcome
ServerQueryArgs == {args \in QueryToolArgs : DOMAIN args = {"dataset_id"}}
ServerMetadataArgs ==
    {args \in MetadataToolArgs :
        Has(args, "source") /\ args.source \in {"opendosm", "other"}}
NextServer ==
    \/ \E args \in ToolListArgs : CallListDatasets(args)
    \/ \E args \in ToolSearchArgs : CallSearchDatasets(args)
    \/ \E uri \in ResourceUris : ReadResource(uri)
    \/ \E args \in ServerQueryArgs : CallQueryOpenDOSM(args)
    \/ \E args \in ServerQueryArgs : CallQueryDataCatalogue(args)
    \/ \E args \in ServerMetadataArgs : CallGetDatasetMetadata(args)
    \/ \E args \in ServerMetadataArgs : CallGetDatasetSchema(args)
    \/ \E resp \in Responses : FetchResolves(resp)
    \/ FetchFails
    \/ Return
SpecServer == Init /\ [][NextServer]_vars

(***************************************************************************)
(* Properties of search_datasets.                                          *)
(***************************************************************************)
SearchReturned ==
    pc = "done" /\ call.name = "search_datasets" /\ ~response.isError

\* the record matches q in its id, name, description or one of its keywords
Matches(d, q) ==
    \/ includes(toLowerCase(d.id), q)
    \/ includes(toLowerCase(d.name), q)
    \/ includes(toLowerCase(d.description), q)
    \/ Has(d, "keywords")
       /\ \E k \in 1..Len(d.keywords) : includes(toLowerCase(d.keywords[k]), q)

\* the place of a returned record in the order of encounter: the opendosm
\* records in index order, then the data_catalogue records in index order
PlaceIn(ds, d) == CHOOSE i \in 1..Len(ds) : ds[i].id = d.id
Encounter(d) ==
    IF d.source = "opendosm"
    THEN PlaceIn(DATASETS_INDEX.opendosm, d)
    ELSE Len(DATASETS_INDEX.opendosm) + PlaceIn(DATASETS_INDEX.data_catalogue, d)

\* C1: search_datasets never returns a record of score 0: every returned record
\* matches the lower-cased query in its id, name, description or a keyword.
C1_NoZeroScore ==
    SearchReturned =>
        \A i \in 1..Len(response.datasets) :
            /\ Matches(response.datasets[i], toLowerCase(call.args.query))
            /\ Score(response.datasets[i], toLowerCase(call.args.query)) # 0

\* a search that returned a record and left out a searched record that matches nowhere
C1_Witness ==
    /\ SearchReturned
    /\ Len(response.datasets) >= 1
    /\ \E i \in 1..Len(SearchCollect(DATASETS_INDEX, call.args)) :
          ~Matches(SearchCollect(DATASETS_INDEX, call.args)[i],
                   toLowerCase(call.args.query))

\* C2: the returned records are in non-increasing order of score, and returned
\* records of equal score are in the order in which they were encountered.
C2_SortedStable ==
    SearchReturned =>
        \A i, j \in 1..Len(response.datasets) :
            i < j =>
                LET q == toLowerCase(call.args.query)
                    a == response.datasets[i]
                    b == response.datasets[j]
                IN  /\ Score(a, q) >= Score(b, q)
                    /\ Score(a, q) = Score(b, q) => Encounter(a) < Encounter(b)

\* two returned records of equal score
C2_Witness ==
    /\ SearchReturned
    /\ \E i, j \in 1..Len(response.datasets) :
          LET q == toLowerCase(call.args.query)
          IN  /\ i < j
              /\ Score(response.datasets[i], q) = Score(response.datasets[j], q)

\* C3: an exact id match always outranks a partial id match: a searched record
\* whose id equals the query comes before every searched record whose id only
\* contains the query, whatever their names, descriptions and keywords are.
C3_ExactIdFirst ==
    SearchReturned =>
        \A i, j \in 1..Len(scoredDatasets) :
            LET q == toLowerCase(call.args.query)
                exact == toLowerCase(scoredDatasets[i][2].id)
                partial == toLowerCase(scoredDatasets[j][2].id)
            IN  (exact = q /\ partial # q /\ includes(partial, q)) => i < j

\* C4: over the index whose only record is cpi_core (no description field), a
\* search for "inflation" returns a non-error result with exactly that record
\* (count 1), ranked with score 40.
C4_Scenario ==
    ( /\ pc = "done"
      /\ call.name = "search_datasets"
      /\ DATASETS_INDEX = [opendosm |-> <<R_cpi_core>>, data_catalogue |-> <<>>]
      /\ call.args = [query |-> S_inflation] )
    => /\ ~response.isError
       /\ response.count = 1
       /\ response.datasets = <<Tag(R_cpi_core, "opendosm")>>
       /\ scoredDatasets = << <<40, Tag(R_cpi_core, "opendosm")>> >>

\* C5: search_datasets returns at most `limit` records for every value of
\* `limit` (none for a limit below 1): the first `limit` records of the ranked
\* list, and count is the number of records returned.
C5_AtMostLimit ==
    SearchReturned =>
        LET limit == IF Has(call.args, "limit") THEN call.args.limit ELSE 10
            n == Min(Max(limit, 0), Len(scoredDatasets))
        IN  /\ Len(response.datasets) <= Max(limit, 0)
            /\ response.datasets = [i \in 1..n |-> scoredDatasets[i][2]]
            /\ response.count = Len(response.datasets)

(***************************************************************************)
(* Properties of list_datasets.                                            *)
(***************************************************************************)
ListReturned == pc = "done" /\ call.name = "list_datasets"

Sources == {"opendosm", "data_catalogue"}

\* the sources a source argument selects: both when none is given
Selected(args) ==
    IF Has(args, "source") /\ args.source # "" THEN Sources \cap {args.source}
    ELSE Sources

\* the category of d equals c, case-insensitively
SameCategory(d, c) == Has(d, "category") /\ toLowerCase(d.category) = toLowerCase(c)

\* how many records of source s have the category c
CountCategory(s, c) ==
    Cardinality({i \in 1..Len(DATASETS_INDEX[s]) : SameCategory(DATASETS_INDEX[s][i], c)})

SumOver(args, count(_)) ==
    (IF "opendosm" \in Selected(args) THEN count("opendosm") ELSE 0)
    + (IF "data_catalogue" \in Selected(args) THEN count("data_catalogue") ELSE 0)

CategoryHolds(args) ==
    /\ \A i \in 1..Len(response.datasets) :
          SameCategory(response.datasets[i], args.category)
    /\ response.total = SumOver(args, LAMBDA s : CountCategory(s, args.category))

\* C6 as stated: for every supplied category string, every returned record has
\* that category (case-insensitively), none lacks a category, and total counts
\* only such records.
C6_AnyCategory ==
    (ListReturned /\ Has(call.args, "category")) => CategoryHolds(call.args)

\* C6, amended: the same for every supplied category string that is not empty.
C6_NonEmptyCategory ==
    (ListReturned /\ Has(call.args, "category") /\ call.args.category # <<>>)
        => CategoryHolds(call.args)

\* a filter that kept a record whose category differs in case and dropped a
\* record that has no category
C6_Witness ==
    /\ ListReturned
    /\ Has(call.args, "category")
    /\ call.args.category # <<>>
    /\ \E i \in 1..Len(response.datasets) :
          response.datasets[i].category # call.args.category
    /\ \E s \in Selected(call.args) : \E i \in 1..Len(DATASETS_INDEX[s]) :
          ~Has(DATASETS_INDEX[s][i], "category")

\* C7: total is the number of records of the selected sources that pass the
\* category filter (an empty category string filters nothing), whatever limit
\* and offset are.
C7_TotalBeforePagination ==
    ListReturned =>
        response.total =
            SumOver(call.args,
                    LAMBDA s : IF TruthySeq(call.args, "category")
                               THEN CountCategory(s, call.args.category)
                               ELSE Len(DATASETS_INDEX[s]))

\* a page shorter than the filtered list
C7_Witness ==
    /\ ListReturned
    /\ TruthySeq(call.args, "category")
    /\ response.total > response.count
    /\ response.total >= 2

\* C8: the result holds exactly the records at positions [offset, offset+limit)
\* of the filtered list, in list order; an offset at or beyond total gives an
\* empty list with count 0 and the unchanged total.
C8_Pagination ==
    ListReturned =>
        LET filtered == ListFilter(ListCollect(DATASETS_INDEX, call.args), call.args)
            offset == IF Has(call.args, "offset") THEN call.args.offset ELSE 0
            limit == IF Has(call.args, "limit") THEN call.args.limit ELSE 100
            positions == {k \in 0..(Len(filtered) - 1) : offset <= k /\ k < offset + limit}
        IN  /\ Len(response.datasets) = Cardinality(positions)
            /\ \A i \in 1..Len(response.datasets) :
                  /\ Max(offset, 0) + i - 1 \in positions
                  /\ response.datasets[i] = filtered[Max(offset, 0) + i]
            /\ response.count = Len(response.datasets)
            /\ response.total = Len(filtered)
            /\ offset >= response.total => response.datasets = <<>>

\* C9: the list is the opendosm records followed by the data_catalogue records
\* (only those of the named source when one is given), every record tagged with
\* the source whose index holds it, in index order within each source.
C9_Concatenation ==
    ListReturned =>
        /\ \A i \in 1..Len(response.datasets) :
              LET d == response.datasets[i]
              IN  /\ d.source \in Selected(call.args)
                  /\ \E k \in 1..Len(DATASETS_INDEX[d.source]) :
                        d = Tag(DATASETS_INDEX[d.source][k], d.source)
        /\ \A i, j \in 1..Len(response.datasets) :
              i < j => Encounter(response.datasets[i]) < Encounter(response.datasets[j])
        /\ DOMAIN call.args \subseteq {"source"}
              => Len(response.datasets)
                    = SumOver(call.args, LAMBDA s : Len(DATASETS_INDEX[s]))

\* an unfiltered list over both sources, each holding a record
C9_Witness ==
    /\ ListReturned
    /\ DOMAIN call.args = {}
    /\ Len(response.datasets) = 2
    /\ response.datasets[1].source = "opendosm"
    /\ response.datasets[2].source = "data_catalogue"

(***************************************************************************)
(* Properties of the client's requests.                                    *)
(***************************************************************************)
QueryIssued ==
    pc \in {"fetching", "done"} /\ call.name \in {"queryOpenDOSM", "queryDataCatalogue"}

\* the decimal strings of the numbers the queries are given
Decimal(n) ==
    CASE n = -1 -> <<"-","1">>
      [] n = 0 -> <<"0">>
      [] n = 5 -> <<"5">>
      [] n = 20 -> <<"2","0">>
      [] n = 100 -> <<"1","0","0">>
      [] n = 2024 -> <<"2","0","2","4">>

\* the text of a filter value
Text(value) ==
    CASE value.type = "string" -> value.v
      [] value.type = "number" -> Decimal(value.v)
      [] value.type = "boolean" /\ value.v -> <<"t","r","u","e">>
      [] value.type = "boolean" /\ ~value.v -> <<"f","a","l","s","e">>
      [] value.type = "null" -> <<"n","u","l","l">>

Count(seq, p) == Cardinality({i \in 1..Len(seq) : seq[i] = p})
SameParams(a, b) ==
    /\ Len(a) = Len(b)
    /\ \A i \in 1..Len(a) : Count(a, a[i]) = Count(b, a[i])

\* C10: a non-metadata query sends id=D, limit=L, offset=O and one parameter
\* per filter pair, with the stringified value, and nothing else; limit is 100
\* and offset 0 when omitted.
C10_QueryParams ==
    (QueryIssued /\ ~(Has(call.options, "metaOnly") /\ call.options.metaOnly)) =>
        LET o == call.options
            L == IF Has(o, "limit") THEN o.limit ELSE 100
            O == IF Has(o, "offset") THEN o.offset ELSE 0
            F == IF Has(o, "filters") THEN o.filters ELSE <<>>
        IN  SameParams(request.params,
                       << <<"id", call.datasetId>>,
                          <<"limit", Decimal(L)>>,
                          <<"offset", Decimal(O)>> >>
                       \o [i \in 1..Len(F) |-> <<F[i][1], Text(F[i][2])>>])

\* the query of the specification's example: one filter, limit 5, offset 0
C10_Witness ==
    /\ QueryIssued
    /\ call.options =
          [filters |-> << <<"date", [type |-> "string", v |-> S_date]>> >>,
           limit |-> 5, offset |-> 0]
    /\ request.params =
          << <<"id", S_fuelprice>>, <<"limit", <<"5">> >>, <<"offset", <<"0">> >>,
             <<"date", S_date>> >>

MetaOnly == Has(call.options, "metaOnly") /\ call.options.metaOnly
Keys(params) == {params[i][1] : i \in 1..Len(params)}
KeyCount(params, key) == Cardinality({i \in 1..Len(params) : params[i][1] = key})
FilterKeyCount(key) ==
    IF Has(call.options, "filters") THEN KeyCount(call.options.filters, key) ELSE 0

\* C11 as stated: with metaOnly true the request holds meta_only=true and no
\* limit and no offset parameter; with metaOnly false or omitted it holds limit
\* and offset and no meta_only parameter; whatever the filter map.
C11_AnyFilterMap ==
    QueryIssued =>
        IF MetaOnly
        THEN /\ \E i \in 1..Len(request.params) :
                    request.params[i] = <<"meta_only", <<"t","r","u","e">> >>
             /\ Keys(request.params) \cap {"limit", "offset"} = {}
        ELSE /\ {"limit", "offset"} \subseteq Keys(request.params)
             /\ "meta_only" \notin Keys(request.params)

\* C11: the query itself adds meta_only=true and neither limit nor offset when
\* metaOnly is true, and limit and offset and no meta_only otherwise; every
\* other parameter of one of these three names is a filter key of that name.
C11_OwnParams ==
    QueryIssued =>
        /\ KeyCount(request.params, "meta_only") =
              (IF MetaOnly THEN 1 ELSE 0) + FilterKeyCount("meta_only")
        /\ KeyCount(request.params, "limit") =
              (IF MetaOnly THEN 0 ELSE 1) + FilterKeyCount("limit")
        /\ KeyCount(request.params, "offset") =
              (IF MetaOnly THEN 0 ELSE 1) + FilterKeyCount("offset")
        /\ MetaOnly => request.params[2] = <<"meta_only", <<"t","r","u","e">> >>

\* a metadata query with a filter and a limit: the limit is not sent
C11_Witness ==
    /\ QueryIssued
    /\ MetaOnly
    /\ Has(call.options, "limit")
    /\ request.params =
          << <<"id", S_fuelprice>>, <<"meta_only", <<"t","r","u","e">> >>,
             <<"date", S_date>> >>

(***************************************************************************)
(* Properties of the queries the tools make.                               *)
(***************************************************************************)
\* the invocation has called a query method of the client
Querying == Has(call, "client")

\* the queries the invocation has made so far
QueriesMade ==
    IF ~Querying THEN 0
    ELSE IF call.name = "get_dataset_schema" /\ Has(call, "metadata") THEN 2
    ELSE 1

\* C12: every query of the client issues one GET with Accept: application/json
\* to the base URL of its source, never to the other base and never twice:
\* the invocation has issued one request per query it made, query_opendosm
\* through queryOpenDOSM and query_data_catalogue through queryDataCatalogue.
C12_OneGetToOwnBase ==
    /\ Len(log) = QueriesMade
    /\ Querying =>
          /\ \A i \in 1..Len(log) :
                /\ log[i].method = "GET"
                /\ log[i].headers = [Accept |-> "application/json"]
                /\ log[i].base =
                      IF call.client = "queryOpenDOSM"
                      THEN "https://api.data.gov.my/opendosm"
                      ELSE "https://api.data.gov.my/data-catalogue"
          /\ call.name = "query_opendosm" => call.client = "queryOpenDOSM"
          /\ call.name = "query_data_catalogue" => call.client = "queryDataCatalogue"
          /\ Len(log) = 2 => log[1].params # log[2].params

\* query_data_catalogue has returned upstream's value after one request to
\* the data-catalogue base
C12_Witness ==
    /\ pc = "done"
    /\ call.name = "query_data_catalogue"
    /\ ~response.isError
    /\ log = <<request>>
    /\ request.base = "https://api.data.gov.my/data-catalogue"

\* upstream answered the last request with a status outside 200..299
AnsweredNotOk == Has(reply, "status") /\ ~(reply.status \in 200..299)

\* C13: a non-2xx response makes the query fail with an error that carries the
\* status code and the status text; the request is not sent again; and the
\* tool result is marked as an error.
C13_NonOkFails ==
    AnsweredNotOk =>
        /\ pc # "fetching"
        /\ response.isError
        /\ Has(response.error, "status") /\ response.error.status = reply.status
        /\ Has(response.error, "statusText")
        /\ response.error.statusText = reply.statusText
        /\ response.error.message =
              IF call.client = "queryOpenDOSM" THEN "OpenDOSM API error: "
              ELSE "Data Catalogue API error: "
        /\ Len(log) = QueriesMade
        /\ log[Len(log)] = request

\* query_opendosm got 404 Not Found: one request, an error result
C13_Witness ==
    /\ pc = "done"
    /\ call.name = "query_opendosm"
    /\ Has(reply, "status") /\ reply.status = 404
    /\ response.isError
    /\ response.error.status = 404 /\ response.error.statusText = "Not Found"
    /\ Len(log) = 1

\* upstream answered the last request with a 2xx status and a JSON body
AnsweredJson ==
    /\ Has(reply, "status") /\ reply.status \in 200..299
    /\ JSONparse(reply.body).ok

\* C14: on a 2xx response the query returns the decoded body as it is, and
\* query_opendosm, query_data_catalogue and get_dataset_metadata return the
\* JSON encoding of exactly that value as a non-error result.
C14_BodyPassedThrough ==
    (AnsweredJson /\ call.name \in
        {"query_opendosm", "query_data_catalogue", "get_dataset_metadata"}) =>
        /\ ~response.isError
        /\ DOMAIN response = {"isError", "text"}
        /\ JSONparse(response.text) = JSONparse(reply.body)

\* get_dataset_metadata returns the object upstream sent
C14_Witness ==
    /\ pc = "done"
    /\ call.name = "get_dataset_metadata"
    /\ AnsweredJson
    /\ reply.body = <<"{", DQ, "y","e","a","r", DQ, ":", "2","0","2","4", "}">>
    /\ response = [isError |-> FALSE, text |-> reply.body]

(***************************************************************************)
(* Properties of close().                                                  *)
(***************************************************************************)
\* a step of close() that finds a controller
Closes == abortController # Null /\ abortController' = Null
\* a step that starts a query
Starts == pc = "idle" /\ pc' = "fetching"
\* a step that ends the query in flight
Ends == pc = "fetching" /\ pc' = "done"
Aborted(result) == result.isError /\ result.error.message = "This operation was aborted"

\* C15: close() with a request in flight aborts that request, which then ends
\* aborted; a query started later gets a controller of its own, not aborted
\* and distinct from every earlier one, whose state it leaves alone; and a
\* request whose controller was not aborted never ends aborted.
C15_CloseAbortsOneRequest ==
    [][ /\ (pc = "fetching" /\ Closes) =>
              /\ abortController.controller = request.signal
              /\ controllers'[request.signal]
        /\ (Ends /\ controllers[request.signal]) => Aborted(response')
        /\ Starts =>
              /\ request'.signal \notin 1..Len(controllers)
              /\ request'.signal \in 1..Len(controllers')
              /\ ~controllers'[request'.signal]
              /\ abortController' = [controller |-> request'.signal]
              /\ \A k \in 1..Len(controllers) : controllers'[k] = controllers[k]
        /\ (Ends /\ ~controllers[request.signal]) => ~Aborted(response')
      ]_vars

\* the first request was aborted by close(); the second one, started after
\* it, has returned upstream's value
C15_Witness ==
    /\ controllers = <<TRUE, FALSE>>
    /\ pc = "done"
    /\ request.signal = 2
    /\ ~response.isError

(***************************************************************************)
(* Properties of the CallTool handler.                                     *)
(***************************************************************************)
SixTools == {"query_opendosm", "query_data_catalogue", "get_dataset_metadata",
             "list_datasets", "search_datasets", "get_dataset_schema"}

\* the filters argument is a non-empty text that no JSON value encodes to
FiltersMalformed ==
    /\ Has(call.args, "filters") /\ call.args.filters # <<>>
    /\ \A value \in JsonValues : JSONstringify(value) # call.args.filters

SourceAccepted ==
    Has(call.args, "source") /\ call.args.source \in {"opendosm", "data_catalogue"}

\* the search reads the lower-cased query and every selected record's description
SearchFails ==
    \/ ~Has(call.args, "query")
    \/ \E src \in {"opendosm", "data_catalogue"} :
          /\ Has(call.args, "source") /\ call.args.source # "" => call.args.source = src
          /\ \E i \in 1..Len(DATASETS_INDEX[src]) :
                ~Has(DATASETS_INDEX[src][i], "description")

\* something went wrong in the invocation that has ended
ErrorOccurred ==
    \/ call.name \notin SixTools
    \/ call.name \in {"query_opendosm", "query_data_catalogue"} /\ FiltersMalformed
    \/ call.name \in {"get_dataset_metadata", "get_dataset_schema"} /\ ~SourceAccepted
    \/ call.name = "search_datasets" /\ SearchFails
    \/ log # <<>> /\ ~AnsweredJson

C17_InvalidSourceRejected ==
    (/\ Has(call, "name")
     /\ call.name \in {"get_dataset_metadata", "get_dataset_schema"}
     /\ ~SourceAccepted) =>
        /\ pc # "fetching"
        /\ log = <<>> /\ request = Null
        /\ response.isError
        /\ response.error =
              [message |-> "Invalid source. Must be 'opendosm' or 'data_catalogue'"]

\* get_dataset_schema with source 'other'
C17_Witness ==
    /\ pc = "done"
    /\ call.name = "get_dataset_schema"
    /\ Has(call.args, "source") /\ call.args.source = "other"
    /\ response.isError
    /\ log = <<>>

\* the filters argument is the JSON encoding of an object
FiltersEncodeMap ==
    /\ Has(call.args, "filters")
    /\ \E value \in JsonValues :
          value.type = "object" /\ JSONstringify(value) = call.args.filters

\* the request holds parameters besides id, limit and offset
FiltersForwarded ==
    \E i \in 1..Len(log) : Len(log[i].params) > 3

\* C18: a filters argument that is not the encoding of a filter map makes
\* query_opendosm and query_data_catalogue return a parse error without any
\* upstream request; filters reach upstream only when the argument decodes to
\* a key/value map.
C18_OnlyMapsForwarded ==
    (Has(call, "name") /\ call.name \in {"query_opendosm", "query_data_catalogue"}) =>
        /\ (Has(call.args, "filters") /\ ~FiltersEncodeMap) =>
              /\ pc # "fetching"
              /\ log = <<>>
              /\ response.isError
        /\ FiltersForwarded => FiltersEncodeMap

\* C19: a call whose name is none of the six tools returns the 'Unknown tool'
\* error with the name, issues no request, and its result is the same under
\* every index.
C19_UnknownTool ==
    (Has(call, "name") /\ call.name \notin SixTools) =>
        /\ pc # "fetching"
        /\ log = <<>> /\ request = Null
        /\ scoredDatasets = <<>>
        /\ response =
              [isError |-> TRUE,
               error |-> [message |-> "Unknown tool: ", name |-> call.name],
               tool |-> call.name, arguments |-> call.args]

\* a name that differs from a tool's name by case only, under a non-empty index
C19_Witness ==
    /\ pc = "done"
    /\ call.name = "Query_OpenDOSM"
    /\ DATASETS_INDEX.opendosm # <<>>
    /\ response.isError
    /\ response.error.name = "Query_OpenDOSM"

\* get_dataset_schema has ended
SchemaEnded == pc = "done" /\ call.name = "get_dataset_schema"

\* the records of the given source that have the given id
SchemaHits ==
    {i \in 1..Len(DATASETS_INDEX[call.args.source]) :
        DATASETS_INDEX[call.args.source][i].id = call.args.dataset_id}

\* C20: get_dataset_schema whose two upstream calls succeed returns a non-error
\* result; its info is {id, name: "Unknown"} when the given source's index has
\* no record of that id, and otherwise the record of that source's index.
C20_SchemaInfo ==
    (SchemaEnded /\ SourceAccepted) =>
        /\ (Len(log) = 2 /\ AnsweredJson) => ~response.isError
        /\ ~response.isError =>
              response.result.info =
                 IF SchemaHits = {}
                 THEN [id |-> call.args.dataset_id, name |-> <<"U","n","k","n","o","w","n">>]
                 ELSE DATASETS_INDEX[call.args.source][CHOOSE i \in SchemaHits :
                                                         \A j \in SchemaHits : i <= j]

\* the id is in the opendosm index only and the schema is asked of
\* data_catalogue: info is the Unknown record
C20_Witness ==
    /\ SchemaEnded
    /\ ~response.isError
    /\ call.args = [dataset_id |-> S_gdp, source |-> "data_catalogue"]
    /\ \E i \in 1..Len(DATASETS_INDEX.opendosm) : DATASETS_INDEX.opendosm[i].id = S_gdp
    /\ response.result.info = [id |-> S_gdp, name |-> S_Unknown]

\* the base URL the tools must use for a source argument
BaseOfSource(source) ==
    IF source = "opendosm" THEN "https://api.data.gov.my/opendosm"
    ELSE "https://api.data.gov.my/data-catalogue"

\* C21: get_dataset_metadata with a valid source issues one request, to the
\* base URL of that source, with id=<dataset_id> and meta_only=true and no
\* limit or offset, and returns upstream's response as its result.
C21_MetadataRequest ==
    (Has(call, "name") /\ call.name = "get_dataset_metadata" /\ SourceAccepted) =>
        /\ log = <<request>>
        /\ request.method = "GET"
        /\ request.base = BaseOfSource(call.args.source)
        /\ request.params =
              << <<"id", call.args.dataset_id>>, <<"meta_only", <<"t","r","u","e">> >> >>
        /\ AnsweredJson =>
              /\ ~response.isError
              /\ JSONparse(response.text) = JSONparse(reply.body)

\* the metadata of gdp from opendosm
C21_Witness ==
    /\ pc = "done"
    /\ call.name = "get_dataset_metadata"
    /\ call.args = [dataset_id |-> S_gdp, source |-> "opendosm"]
    /\ request.base = "https://api.data.gov.my/opendosm"
    /\ request.params = << <<"id", S_gdp>>, <<"meta_only", <<"t","r","u","e">> >> >>
    /\ ~response.isError

\* the limit and offset arguments of the query tool, or their defaults
GivenLimit == IF Has(call.args, "limit") THEN call.args.limit ELSE 100
GivenOffset == IF Has(call.args, "offset") THEN call.args.offset ELSE 0

\* C22: query_opendosm and query_data_catalogue neither validate nor clamp
\* limit and offset: every value, negative ones included, is sent as its
\* decimal string, and the request is issued.
C22_LimitOffsetAsGiven ==
    (/\ Has(call, "name")
     /\ call.name \in {"query_opendosm", "query_data_catalogue"}
     /\ ~FiltersMalformed) =>
        /\ log = <<request>>
        /\ request.params[2] = <<"limit", Decimal(GivenLimit)>>
        /\ request.params[3] = <<"offset", Decimal(GivenOffset)>>

\* limit -1 and offset -1 are sent as "-1"
C22_Witness ==
    /\ pc = "fetching"
    /\ call.name = "query_opendosm"
    /\ Has(call.args, "limit") /\ call.args.limit = -1
    /\ Has(call.args, "offset") /\ call.args.offset = -1
    /\ request.params[2] = <<"limit", <<"-","1">> >>
    /\ request.params[3] = <<"offset", <<"-","1">> >>

(***************************************************************************)
(* Properties of the static index.                                         *)
(***************************************************************************)
IndexUntagged ==
    \A src \in {"opendosm", "data_catalogue"} :
        \A i \in 1..Len(DATASETS_INDEX[src]) : ~Has(DATASETS_INDEX[src][i], "source")

\* C23: no tool call and no resource read changes the index: both sequences
\* keep their records in their order, and no index record gains a source field.
C23_IndexImmutable ==
    []IndexUntagged /\ [][DATASETS_INDEX' = DATASETS_INDEX]_vars

\* a search has returned the two records of data_catalogue tagged and in the
\* opposite order, and the index holds them as before
C23_Witness ==
    /\ pc = "done"
    /\ Has(call, "name") /\ call.name = "search_datasets"
    /\ ~response.isError
    /\ DATASETS_INDEX = [opendosm |-> <<>>, data_catalogue |-> <<R_gdp, R_gdp_qtr>>]
    /\ response.datasets = <<Tag(R_gdp_qtr, "data_catalogue"), Tag(R_gdp, "data_catalogue")>>

(***************************************************************************)
(* The score of search_datasets.                                           *)
(***************************************************************************)
EqualsCI(text, query) == toLowerCase(text) = toLowerCase(query)
ContainsCI(text, query) == includes(toLowerCase(text), toLowerCase(query))

\* the score the claim gives a record for a query
ClaimedScore(d, query) ==
    LET kws == IF Has(d, "keywords") THEN d.keywords ELSE <<>>
        exact == {k \in 1..Len(kws) : EqualsCI(kws[k], query)}
        partial == {k \in 1..Len(kws) : ~EqualsCI(kws[k], query) /\ ContainsCI(kws[k], query)}
    IN  (IF EqualsCI(d.id, query) THEN 100
         ELSE IF ContainsCI(d.id, query) THEN 50 ELSE 0)
        + (IF ContainsCI(d.name, query) THEN 30 ELSE 0)
        + (IF ContainsCI(d.description, query) THEN 10 ELSE 0)
        + 40 * Cardinality(exact) + 20 * Cardinality(partial)

\* C24: the score of a record is (100 if its id equals the query, else 50 if
\* it contains it) + 30 for the name + 10 for the description + for every
\* keyword 40 if it equals the query, else 20 if it contains it, compared
\* case-insensitively; the ranked list holds the records of positive score.
C24_ScoreFormula ==
    SearchReturned =>
        LET collected == SearchCollect(DATASETS_INDEX, call.args)
        IN  /\ \A i \in 1..Len(scoredDatasets) :
                  scoredDatasets[i][1] = ClaimedScore(scoredDatasets[i][2], call.args.query)
            /\ Len(scoredDatasets) =
                  Cardinality({i \in 1..Len(collected) :
                                  ClaimedScore(collected[i], call.args.query) > 0})

\* query GDP: gdp scores 100 by its id alone, gdp_qtr scores 50 + 30 + 10 for
\* id, name and description and 40 + 20 for two of its three keywords
C24_Witness ==
    /\ SearchReturned
    /\ call.args.query = S_GDP
    /\ scoredDatasets = << <<150, Tag(R_gdp_qtr, "data_catalogue")>>,
                           <<100, Tag(R_gdp, "data_catalogue")>> >>

(***************************************************************************)
(* Properties of queries made side by side on one client.                  *)
(***************************************************************************)
\* a step that starts a query
StartsQuery == Len(controllers') = Len(controllers) + 1
Held(k) == abortController = [controller |-> k]
AbortedPromise == [threw |-> TRUE, error |-> [message |-> "This operation was aborted"]]

\* C25: a query started while another is in flight replaces the client's
\* handle by its own; a close() after it aborts the request of the handle
\* held, the later one, and no other; the earlier request is never aborted
\* from then on and does not end aborted.
C25_HandleReplaced ==
    [][ /\ StartsQuery => abortController' = [controller |-> Len(controllers')]
        /\ Closes =>
              /\ Held(Len(controllers))
              /\ \A k \in 1..Len(controllers) :
                    controllers'[k] = (controllers[k] \/ Held(k))
        /\ \A k \in 1..Len(controllers) :
              /\ (k < Len(controllers) /\ ~controllers[k]) => ~controllers'[k]
              /\ (IsPending(k) /\ ~controllers[k]) => promises'[k] # AbortedPromise
      ]_vars

\* two requests in flight, close() called: the second is aborted, the first
\* is still in flight and not aborted
C25_Witness ==
    /\ Len(promises) = 2
    /\ IsPending(1) /\ IsPending(2)
    /\ controllers = <<FALSE, TRUE>>
    /\ abortController = Null

\* C26: starting a query aborts no earlier request; a request is aborted only
\* by a close() made while its handle is the one the client holds; and the
\* client holds no handle or the handle of one request.
C26_OnlyCloseAborts ==
    /\ [](abortController = Null \/ \E k \in 1..Len(controllers) : Held(k))
    /\ [][ /\ StartsQuery =>
                 \A k \in 1..Len(controllers) : controllers'[k] = controllers[k]
           /\ \A k \in 1..Len(controllers) :
                 (~controllers[k] /\ controllers'[k]) =>
                     Held(k) /\ abortController' = Null /\ ~StartsQuery
         ]_vars

\* a second query was started while the first was in flight: both are in
\* flight, neither is aborted, the client holds the second handle
C26_Witness ==
    /\ Len(promises) = 2
    /\ IsPending(1) /\ IsPending(2)
    /\ controllers = <<FALSE, FALSE>>
    /\ Held(2)

\* C30: close() leaves the client without a handle in every state; when the
\* client holds none (before any query, after a close()) it changes nothing;
\* it never changes the result of a request, settled or not, nor aborts any
\* controller but the one held.
C30_CloseSafe ==
    /\ ~ENABLED (close /\ abortController' # Null)
    /\ abortController = Null => ~ENABLED (close /\ vars' # vars)
    /\ ~ENABLED (close /\ (promises' # promises \/ response' # response))
    /\ ~ENABLED (close /\ \E k \in 1..Len(controllers) :
                              ~Held(k) /\ controllers'[k] # controllers[k])

\* close() was called after the only request had returned upstream's value:
\* its controller is aborted, the value is still the result
C30_Witness ==
    /\ Len(promises) = 1
    /\ ~IsPending(1) /\ ~promises[1].threw
    /\ controllers = <<TRUE>>
    /\ abortController = Null

(***************************************************************************)
(* Properties of get_dataset_schema.                                       *)
(***************************************************************************)
SchemaCalled ==
    Has(call, "name") /\ call.name = "get_dataset_schema" /\ SourceAccepted

\* C27: a successful get_dataset_schema has issued two requests to the base
\* URL of its source, first id and meta_only=true, then id, limit=3 and
\* offset=0, and returns one object of dataset_id, source, info, the metadata
\* response and the sample response.
C27_SchemaComposition ==
    /\ (SchemaCalled /\ pc = "fetching" /\ Len(log) = 2) =>
          call.metadata = JSONparse(reply.body).value
    /\ (SchemaCalled /\ pc = "done" /\ ~response.isError) =>
          /\ Len(log) = 2
          /\ \A i \in 1..2 :
                log[i].method = "GET" /\ log[i].base = BaseOfSource(call.args.source)
          /\ log[1].params =
                << <<"id", call.args.dataset_id>>, <<"meta_only", <<"t","r","u","e">> >> >>
          /\ log[2].params =
                << <<"id", call.args.dataset_id>>, <<"limit", <<"3">> >>,
                   <<"offset", <<"0">> >> >>
          /\ DOMAIN response = {"isError", "result"}
          /\ DOMAIN response.result =
                {"dataset_id", "source", "info", "metadata", "sample_data"}
          /\ response.result.dataset_id = call.args.dataset_id
          /\ response.result.source = call.args.source
          /\ response.result.metadata = call.metadata
          /\ response.result.sample_data = JSONparse(reply.body).value

\* the schema of fuelprice from data_catalogue: metadata {"year":2024} and
\* sample {"rows":[5]}
C27_Witness ==
    /\ SchemaCalled /\ pc = "done" /\ ~response.isError
    /\ call.args = [dataset_id |-> S_fuelprice, source |-> "data_catalogue"]
    /\ response.result.metadata = J_obj(<< <<"year", J_num(2024)>> >>)
    /\ response.result.sample_data = J_obj(<< <<"rows", J_arr(<<J_num(5)>>)>> >>)

\* C28: in get_dataset_schema the sample request is issued only after the
\* metadata request succeeded; when either request fails the result is the
\* error result alone, without info, metadata or sample_data.
C28_NoPartialSchema ==
    SchemaCalled =>
        /\ (pc = "fetching" /\ Len(log) = 2) => AnsweredJson
        /\ (pc = "done" /\ Len(log) = 1) => ~AnsweredJson
        /\ (pc = "done" /\ ~AnsweredJson) =>
              /\ response.isError
              /\ DOMAIN response = {"isError", "error", "tool", "arguments"}

\* the metadata request succeeded and the sample request got 404
C28_Witness ==
    /\ SchemaCalled /\ pc = "done"
    /\ Len(log) = 2
    /\ Has(reply, "status") /\ reply.status = 404
    /\ response.isError

(***************************************************************************)
(* list_datasets and search_datasets with another source.                  *)
(***************************************************************************)
IndexToolEnded ==
    pc = "done" /\ Has(call, "name") /\ call.name \in {"list_datasets", "search_datasets"}

EmptyResult ==
    /\ ~response.isError
    /\ response.count = 0
    /\ response.datasets = <<>>
    /\ call.name = "list_datasets" => response.total = 0

\* C29 as stated: list_datasets and search_datasets with a source that is
\* neither 'opendosm' nor 'data_catalogue' report no error and return an empty
\* result.
C29_AnyOtherSource ==
    (/\ IndexToolEnded
     /\ Has(call.args, "source")
     /\ call.args.source \notin {"opendosm", "data_catalogue"}) => EmptyResult

\* C29: list_datasets, and search_datasets given a query, with a non-empty
\* source that is neither 'opendosm' nor 'data_catalogue' report no error and
\* return an empty result; the empty string selects both sources, as no
\* source does.
C29_NonEmptyOtherSource ==
    (/\ IndexToolEnded
     /\ Has(call.args, "source")
     /\ call.args.source \notin {"opendosm", "data_catalogue", ""}
     /\ call.name = "search_datasets" => Has(call.args, "query")) => EmptyResult

\* a list of source 'other' over an index that holds records
C29_Witness ==
    /\ IndexToolEnded
    /\ call.name = "list_datasets"
    /\ Has(call.args, "source") /\ call.args.source = "other"
    /\ DATASETS_INDEX.opendosm # <<>> /\ DATASETS_INDEX.data_catalogue # <<>>
    /\ ~response.isError /\ response.total = 0

=============================================================================
